---- MODULE Spec2Model ----
(***************************************************************************)
(* bbscript: the codec between script bytecode and its readable text.      *)
(*   rebuilder.rs  assemble_script   text calls -> jump table + records    *)
(*   parser.rs     parse, parse_script, parse_sized, parse_unsized,        *)
(*                 parse_to_string   bytes -> instructions -> text         *)
(*   game_config.rs ScriptConfig, SizedInstruction, UnsizedInstruction     *)
(* Bytes are naturals 0..255 in sequences.  A u32 of 2^31 or more is       *)
(* carried as its two's-complement negative (the same 32 bits).            *)
(***************************************************************************)
EXTENDS Integers, Sequences, FiniteSets, TLC

\* ------------------------------------------------------------ bounds
\* lines of a readable script given to the rebuilder
MaxLines == 2
\* instruction records of a binary script given to the parser
MaxRecords == 2

\* ------------------------------------------------------------ program constants
JUMP_ENTRY_LENGTH == 36
STRING32_SIZE == 32
STRING16_SIZE == 16
BASE_SIZE == 4
SIZED_HEADER == 4
UNSIZED_HEADER == 8
INDENT_LIMIT == 12
INDENT_SPACES == 2

\* ------------------------------------------------------------ sequences
RECURSIVE SumSeq(_)
SumSeq(s) == IF s = <<>> THEN 0 ELSE Head(s) + SumSeq(Tail(s))

RECURSIVE Concat(_)
Concat(ss) == IF ss = <<>> THEN <<>> ELSE Head(ss) \o Concat(Tail(ss))

Take(s, n) == SubSeq(s, 1, n)
Drop(s, n) == SubSeq(s, n + 1, Len(s))
Zeros(n) == [i \in 1..n |-> 0]
Contains(s, x) == \E i \in 1..Len(s) : s[i] = x

\* ------------------------------------------------------------ integers on the wire
\* byte k (0 = least significant) of the 32-bit two's-complement pattern of n
ByteOf(n, k) == (n \div (256 ^ k)) % 256

\* byteorder::WriteBytesExt::write_u32::<B> / write_i32::<B>
WriteU32(be, n) ==
  IF be THEN <<ByteOf(n, 3), ByteOf(n, 2), ByteOf(n, 1), ByteOf(n, 0)>>
        ELSE <<ByteOf(n, 0), ByteOf(n, 1), ByteOf(n, 2), ByteOf(n, 3)>>

\* bytes::Buf::get_u32_le / get_i32_le on the first four bytes of b
GetI32LE(b) ==
  b[1] + 256 * b[2] + 65536 * b[3]
       + 16777216 * (IF b[4] >= 128 THEN b[4] - 256 ELSE b[4])
GetU32LE(b) == GetI32LE(b)
\* a u32 of 2^31 or more, which no length of a buffer of the model reaches
Huge(x) == x < 0

\* ------------------------------------------------------------ catalog data model
\* game_config.rs ArgType
Unknown(n) == [t |-> "Unknown", n |-> n, name |-> ""]
String16 == [t |-> "String16", n |-> 0, name |-> ""]
String32 == [t |-> "String32", n |-> 0, name |-> ""]
Number == [t |-> "Number", n |-> 0, name |-> ""]
Enum(s) == [t |-> "Enum", n |-> 0, name |-> s]
AccessedValue == [t |-> "AccessedValue", n |-> 0, name |-> ""]

\* ArgType::size
ArgTypeSize(a) ==
  CASE a.t = "Unknown" -> a.n
    [] a.t = "Number" -> 4
    [] a.t = "Enum" -> 4
    [] a.t = "String16" -> 16
    [] a.t = "String32" -> 32
    [] a.t = "AccessedValue" -> 8

KnownArgsSize(args) == SumSeq([i \in 1..Len(args) |-> ArgTypeSize(args[i])])

\* one entry of InstructionInfo::Sized / InstructionInfo::Unsized
Instr(size, name, code_block, args) ==
  [size |-> size, name |-> name, code_block |-> code_block, args |-> args]

\* the instruction map shared by the catalogs of the model
InstructionMap ==
  (1 :> Instr(8, "", "NoBlock", <<Number>>))
  @@ (2 :> Instr(4, "If", "Begin", <<>>))
  @@ (3 :> Instr(4, "EndIf", "End", <<>>))
  @@ (5 :> Instr(12, "Acc", "NoBlock", <<AccessedValue>>))
  @@ (6 :> Instr(12, "Pad", "NoBlock", <<Number>>))
  @@ (7 :> Instr(8, "Big", "NoBlock", <<Number, Number>>))
  @@ (8 :> Instr(2, "Tiny", "NoBlock", <<>>))
  @@ (16 :> Instr(36, "State", "Begin", <<String32>>))
  @@ (17 :> Instr(36, "Sub", "Begin", <<String32>>))
  @@ (18 :> Instr(20, "Tag", "NoBlock", <<String16>>))
  @@ (32 :> Instr(8, "Foo", "NoBlock", <<Enum("Color")>>))
  @@ (33 :> Instr(8, "Bar", "NoBlock", <<Enum("Shape")>>))

\* a ScriptConfig: jump_table_ids in declared order, the tags, the bimaps as sets
\* of (number, name) pairs, and the mode-tagged instruction map
Config(sized, jump_ids) ==
  [is_sized |-> sized,
   jump_table_ids |-> jump_ids,
   literal_tag |-> 0,
   variable_tag |-> 2,
   named_variables |-> {[num |-> 3, name |-> "Hp"]},
   named_value_maps |-> [e \in {"Color"} |->
                           {[num |-> 1, name |-> "Red"], [num |-> 2, name |-> "Blue"]}],
   instructions |-> InstructionMap]

\* the catalogs a run is given, by the name of the game
Catalogs ==
  [g \in {"sized_j0", "sized_j1", "sized_j2", "unsized_j1"} |->
     CASE g = "sized_j0" -> Config(TRUE, <<>>)
       [] g = "sized_j1" -> Config(TRUE, <<16>>)
       [] g = "sized_j2" -> Config(TRUE, <<16, 17>>)
       [] g = "unsized_j1" -> Config(FALSE, <<16>>)]

\* ScriptConfig::is_unsized
IsUnsized(db) == ~db.is_sized
\* ScriptConfig::is_jump_entry_id
IsJumpEntryId(db, id) == Contains(db.jump_table_ids, id)

\* ------------------------------------------------------------ results and errors
NoName == [w |-> "", n |-> -1]
\* error.rs BBScriptError: the variant and what it carries
Err(kind, nm, s, n1, n2) ==
  [kind |-> kind, nm |-> nm, s |-> s, s2 |-> "", n1 |-> n1, n2 |-> n2]
NoErr == Err("", NoName, "", 0, 0)

\* ------------------------------------------------------------ readable text
\* An instruction name in the text: a plain word (n = -1), or the word
\* "Unknown" directly followed by the decimal digits of n.
Word(w) == [w |-> w, n |-> -1]
UnknownN(id) == [w |-> "Unknown", n |-> id]

\* format!("{num}") of an i32: a sign and the decimal magnitude
Dec(v) == [neg |-> v < 0, mag |-> IF v < 0 THEN -v ELSE v]
\* str::parse::<i32> of such digits
ParseI32(d) == IF d.neg THEN -d.mag ELSE d.mag

\* One rendered argument of a line.
\*   form "num"    {a}              form "hex"    0x{chars as hex digits 0..15}
\*   form "s16"    s16'{chars}'     form "s32"    s32'{chars}'
\*   form "named"  ({name})         form "Val"    Val({a})
\*   form "Mem"    Mem({name}) when name is not empty, else Mem({a})
\*   form "BadTag" BadTag({a}, {b})
Tok(form, a, b, chars, name) ==
  [form |-> form, a |-> a, b |-> b, chars |-> chars, name |-> name]
TNum(v) == Tok("num", Dec(v), Dec(0), <<>>, "")
THex(digits) == Tok("hex", Dec(0), Dec(0), digits, "")
TS16(chars) == Tok("s16", Dec(0), Dec(0), chars, "")
TS32(chars) == Tok("s32", Dec(0), Dec(0), chars, "")
TNamed(name) == Tok("named", Dec(0), Dec(0), <<>>, name)
TVal(v) == Tok("Val", Dec(v), Dec(0), <<>>, "")
TMemId(v) == Tok("Mem", Dec(v), Dec(0), <<>>, "")
TMemName(name) == Tok("Mem", Dec(0), Dec(0), <<>>, name)
TBadTag(tag, v) == Tok("BadTag", Dec(tag), Dec(v), <<>>, "")

\* a line of text: an instruction line at an indentation, or a blank line
Line(indent, name, args) ==
  [blank |-> FALSE, indent |-> indent, name |-> name, args |-> args]
BlankLine == [blank |-> TRUE, indent |-> 0, name |-> NoName, args |-> <<>>]

\* ------------------------------------------------------------ strings
\* rebuilder.rs unescaped: str::replace(r"\'", r"'"), left to right
RECURSIVE unescaped(_)
unescaped(s) ==
  IF Len(s) >= 2 /\ s[1] = 92 /\ s[2] = 39 THEN <<39>> \o unescaped(Drop(s, 2))
  ELSE IF s = <<>> THEN <<>>
  ELSE <<s[1]>> \o unescaped(Tail(s))

\* the UTF-8 bytes of a string of code points below 2048 (BytesMut::from(&str))
RECURSIVE Utf8(_)
Utf8(s) ==
  IF s = <<>> THEN <<>>
  ELSE (IF s[1] < 128 THEN <<s[1]>> ELSE <<192 + (s[1] \div 64), 128 + (s[1] % 64)>>)
       \o Utf8(Tail(s))

\* BytesMut::resize(size, 0): cut to size, or fill with zero bytes up to size
Resize(b, size) == IF Len(b) >= size THEN Take(b, size) ELSE b \o Zeros(size - Len(b))

\* rebuilder.rs string_to_bytes_of_size
string_to_bytes_of_size(input, size) == Resize(Utf8(unescaped(input)), size)

\* parser.rs process_string_buf: drop the zero bytes, one char per byte, ' -> \'
RECURSIVE process_string_buf(_)
process_string_buf(buf) ==
  IF buf = <<>> THEN <<>>
  ELSE (IF buf[1] = 0 THEN <<>>
        ELSE IF buf[1] = 39 THEN <<92, 39>>
        ELSE <<buf[1]>>) \o process_string_buf(Tail(buf))

\* hex::encode_upper: two hex digits per byte
RECURSIVE HexEncode(_)
HexEncode(data) ==
  IF data = <<>> THEN <<>>
  ELSE <<data[1] \div 16, data[1] % 16>> \o HexEncode(Tail(data))

\* hex::decode of an even number of hex digits
RECURSIVE HexDecode(_)
HexDecode(digits) ==
  IF Len(digits) < 2 THEN <<>>
  ELSE <<16 * digits[1] + digits[2]>> \o HexDecode(Drop(digits, 2))

\* ------------------------------------------------------------ parsed calls
\* rebuilder.rs ParserValue
PV(k, bytes, name, num, tag) ==
  [k |-> k, bytes |-> bytes, name |-> name, num |-> num, tag |-> tag]
PString32(b) == PV("String32", b, "", 0, 0)
PString16(b) == PV("String16", b, "", 0, 0)
PNamed(name) == PV("Named", <<>>, name, 0, 0)
PNumber(v) == PV("Number", <<>>, "", v, 0)
PRaw(b) == PV("Raw", b, "", 0, 0)
PNamedMem(name) == PV("NamedMem", <<>>, name, 0, 0)
PMem(v) == PV("Mem", <<>>, "", v, 0)
PVal(v) == PV("Val", <<>>, "", v, 0)
PBadTag(tag, v) == PV("BadTag", <<>>, "", v, tag)

\* rebuilder.rs BBSFunction
BBSFunction(name, args) == [name |-> name, args |-> args]

\* The rule of readable_bbscript.pest an argument's text matches.
GrammarRule(tok) ==
  CASE tok.form = "s32" -> "string32"
    [] tok.form = "s16" -> "string16"
    [] tok.form = "Mem" /\ tok.name # "" -> "named_var"
    [] tok.form = "Mem" -> "var_id"
    [] tok.form = "Val" -> "tagged_value"
    [] tok.form = "named" -> "named_value"
    [] tok.form = "BadTag" -> "unknown_tag"
    [] tok.form = "hex" -> "raw_data"
    [] tok.form = "num" -> "num"

\* BBSParser::raw_data fails on an odd number of hex digits
ArgSyntaxError(tok) == GrammarRule(tok) = "raw_data" /\ Len(tok.chars) % 2 = 1

\* BBSParser::arg and the rules under it
ParserArg(tok) ==
  LET rule == GrammarRule(tok) IN
  CASE rule = "string32" -> PString32(string_to_bytes_of_size(tok.chars, STRING32_SIZE))
    [] rule = "string16" -> PString16(string_to_bytes_of_size(tok.chars, STRING16_SIZE))
    [] rule = "named_var" -> PNamedMem(tok.name)
    [] rule = "var_id" -> PMem(ParseI32(tok.a))
    [] rule = "tagged_value" -> PVal(ParseI32(tok.a))
    [] rule = "named_value" -> PNamed(tok.name)
    [] rule = "unknown_tag" -> PBadTag(ParseI32(tok.a), ParseI32(tok.b))
    [] rule = "raw_data" -> PRaw(HexDecode(tok.chars))
    [] rule = "num" -> PNumber(ParseI32(tok.a))

\* BBSParser::function: a line's name and its arguments
ParserFunction(line) ==
  BBSFunction(line.name, [i \in 1..Len(line.args) |-> ParserArg(line.args[i])])

\* BBSParser::program: the calls of the instruction lines, in order; indentation
\* and blank lines are not part of a call
RECURSIVE ParserProgram(_)
ParserProgram(text) ==
  IF text = <<>> THEN <<>>
  ELSE (IF Head(text).blank THEN <<>> ELSE <<ParserFunction(Head(text))>>)
       \o ParserProgram(Tail(text))

TextSyntaxError(text) ==
  \E i \in 1..Len(text) : \E j \in 1..Len(text[i].args) : ArgSyntaxError(text[i].args[j])

\* ------------------------------------------------------------ the encoder
\* the outcome of a step that can fail: Ok with a value, an Err value returned to
\* the caller, or a panic
Ok(v) == [kind |-> "Ok", v |-> v, err |-> NoErr]
Fail(e) == [kind |-> "Err", v |-> <<>>, err |-> e]
Panic(msg) == [kind |-> "Panic", v |-> <<>>, err |-> Err("panic", NoName, msg, 0, 0)]

\* BBSFunction::total_size
ParserValueSize(arg) ==
  CASE arg.k = "String32" -> 32
    [] arg.k = "String16" -> 16
    [] arg.k = "Raw" -> Len(arg.bytes)
    [] arg.k \in {"Mem", "NamedMem", "Val", "BadTag"} -> 8
    [] arg.k \in {"Named", "Number"} -> 4
total_size(instruction) ==
  BASE_SIZE + SumSeq([i \in 1..Len(instruction.args) |-> ParserValueSize(instruction.args[i])])

\* GenericInstruction::Sized(id, _) / GenericInstruction::Unsized(id, _)
Generic(db, id) ==
  [variant |-> IF db.is_sized THEN "Sized" ELSE "Unsized", id |-> id,
   size |-> db.instructions[id].size, name |-> db.instructions[id].name,
   code_block |-> db.instructions[id].code_block, args |-> db.instructions[id].args]

\* UnsizedInstruction::from_parsed wrapped in GenericInstruction::Unsized
FromParsed(id, args) ==
  [variant |-> "Unsized", id |-> id, size |-> 0, name |-> "",
   code_block |-> "NoBlock", args |-> args]

\* ParserValue::to_arg_type: the Named arm panics
ToArgTypePanics(arg) == arg.k = "Named"
\* ParserValue::to_arg_type: the other arms
to_arg_type(arg) ==
  CASE arg.k = "String32" -> String32
    [] arg.k = "String16" -> String16
    [] arg.k = "Number" -> Number
    [] arg.k = "Raw" -> Unknown(Len(arg.bytes))
    [] arg.k \in {"NamedMem", "Mem", "Val", "BadTag"} -> AccessedValue

\* ScriptConfig::get_by_name: the IDs whose catalog name is the call's name
get_by_name(db, name) ==
  {id \in DOMAIN db.instructions :
     name.n = -1 /\ name.w # "" /\ db.instructions[id].name = name.w}

\* name.trim_start_matches("Unknown").parse::<u32>() succeeds
ParsesAsId(name) == name.w = "Unknown" /\ name.n >= 0

\* assemble_script, lines 46-63: the schema a call is encoded with
ResolveInstruction(db, instruction) ==
  IF get_by_name(db, instruction.name) # {}
  THEN Ok(Generic(db, CHOOSE id \in get_by_name(db, instruction.name) : TRUE))
  ELSE IF ParsesAsId(instruction.name)
  THEN IF instruction.name.n \in DOMAIN db.instructions
       THEN Ok(Generic(db, instruction.name.n))
       ELSE IF \E i \in 1..Len(instruction.args) : ToArgTypePanics(instruction.args[i])
       THEN Panic("this should never happen")
       ELSE Ok(FromParsed(instruction.name.n,
                          [i \in 1..Len(instruction.args) |->
                             to_arg_type(instruction.args[i])]))
  ELSE Fail(Err("UnknownInstructionName", instruction.name, "", 0, 0))

\* variant: only a call larger than the declared size is refused
SizeMismatch_over(instruction, info) ==
  info.variant = "Sized" /\ total_size(instruction) > info.size
\* assemble_script, lines 67-76: the size check of a sized schema
SizeMismatch(instruction, info) ==
  info.variant = "Sized" /\ total_size(instruction) # info.size

\* variant: a variant name the map does not hold stands for the value 0
get_enum_value_default(db, enum_name, variant) ==
  IF enum_name \in DOMAIN db.named_value_maps
       /\ \E q \in db.named_value_maps[enum_name] : q.name = variant
  THEN {p.num : p \in {q \in db.named_value_maps[enum_name] : q.name = variant}}
  ELSE {0}
\* ScriptConfig::get_enum_value: the values the variant name has in the named map
get_enum_value(db, enum_name, variant) ==
  IF enum_name \in DOMAIN db.named_value_maps
  THEN {p.num : p \in {q \in db.named_value_maps[enum_name] : q.name = variant}}
  ELSE {}

\* ScriptConfig::get_variable_by_name
get_variable_by_name(db, var_name) ==
  {p.num : p \in {q \in db.named_variables : q.name = var_name}}

\* variant: NoEnum carries the position of the argument counted from 1
EncodeArg_onebased(db, be, info, index, arg) ==
  CASE arg.k \in {"String32", "String16", "Raw"} -> Ok(arg.bytes)
    [] arg.k = "Number" -> Ok(WriteU32(be, arg.num))
    [] arg.k = "Named" ->
         IF index + 1 <= Len(info.args) /\ info.args[index + 1].t = "Enum"
         THEN LET enum_name == info.args[index + 1].name
                  value == get_enum_value(db, enum_name, arg.name)
              IN  IF value # {}
                  THEN Ok(WriteU32(be, CHOOSE x \in value : TRUE))
                  ELSE Fail([Err("NoAssociatedValue", NoName, arg.name, 0, 0)
                              EXCEPT !.s2 = enum_name])
         ELSE Fail(Err("NoEnum", NoName, "", index + 1, info.id))
    [] arg.k = "Mem" -> Ok(WriteU32(be, db.variable_tag) \o WriteU32(be, arg.num))
    [] arg.k = "NamedMem" ->
         LET var_id == get_variable_by_name(db, arg.name)
         IN  IF var_id # {}
             THEN Ok(WriteU32(be, db.variable_tag)
                     \o WriteU32(be, CHOOSE x \in var_id : TRUE))
             ELSE Fail(Err("NoVariableName", NoName, arg.name, 0, 0))
    [] arg.k = "Val" -> Ok(WriteU32(be, db.literal_tag) \o WriteU32(be, arg.num))
    [] arg.k = "BadTag" -> Ok(WriteU32(be, arg.tag) \o WriteU32(be, arg.num))
\* assemble_script, lines 108-158: the bytes of the argument at index (from 0)
EncodeArg(db, be, info, index, arg) ==
  CASE arg.k \in {"String32", "String16", "Raw"} -> Ok(arg.bytes)
    [] arg.k = "Number" -> Ok(WriteU32(be, arg.num))
    [] arg.k = "Named" ->
         IF index + 1 <= Len(info.args) /\ info.args[index + 1].t = "Enum"
         THEN LET enum_name == info.args[index + 1].name
                  value == get_enum_value(db, enum_name, arg.name)
              IN  IF value # {}
                  THEN Ok(WriteU32(be, CHOOSE x \in value : TRUE))
                  ELSE Fail([Err("NoAssociatedValue", NoName, arg.name, 0, 0)
                              EXCEPT !.s2 = enum_name])
         ELSE Fail(Err("NoEnum", NoName, "", index, info.id))
    [] arg.k = "Mem" -> Ok(WriteU32(be, db.variable_tag) \o WriteU32(be, arg.num))
    [] arg.k = "NamedMem" ->
         LET var_id == get_variable_by_name(db, arg.name)
         IN  IF var_id # {}
             THEN Ok(WriteU32(be, db.variable_tag)
                     \o WriteU32(be, CHOOSE x \in var_id : TRUE))
             ELSE Fail(Err("NoVariableName", NoName, arg.name, 0, 0))
    [] arg.k = "Val" -> Ok(WriteU32(be, db.literal_tag) \o WriteU32(be, arg.num))
    [] arg.k = "BadTag" -> Ok(WriteU32(be, arg.tag) \o WriteU32(be, arg.num))

\* the loop of lines 100-159 from the argument at index on: all the bytes, or
\* the first error
RECURSIVE EncodeArgs(_, _, _, _, _)
EncodeArgs(db, be, info, index, args) ==
  IF index >= Len(args) THEN Ok(<<>>)
  ELSE LET one == EncodeArg(db, be, info, index, args[index + 1])
       IN  IF one.kind # "Ok" THEN one
           ELSE LET rest == EncodeArgs(db, be, info, index + 1, args)
                IN  IF rest.kind # "Ok" THEN rest ELSE Ok(one.v \o rest.v)

\* variant: the size field counts the size field and the arguments, not the ID
RecordHeader_noid(db, be, info, instruction) ==
  WriteU32(be, info.id)
  \o (IF IsUnsized(db) THEN WriteU32(be, total_size(instruction)) ELSE <<>>)
\* lines 78-86: the opcode ID and, for a dynamic-size catalog, the size field
RecordHeader(db, be, info, instruction) ==
  WriteU32(be, info.id)
  \o (IF IsUnsized(db) THEN WriteU32(be, total_size(instruction) + 4) ELSE <<>>)

\* variant: any first argument makes an entry
AddsJumpEntry_anyfirst(db, info, instruction) ==
  /\ IsJumpEntryId(db, info.id)
  /\ Len(instruction.args) >= 1
\* lines 89-90: the call adds an entry to the jump table
AddsJumpEntry(db, info, instruction) ==
  /\ IsJumpEntryId(db, info.id)
  /\ Len(instruction.args) >= 1
  /\ instruction.args[1].k = "String32"

\* lines 94-95: one jump-table entry
JumpEntry(be, name, at) == name \o WriteU32(be, at)

\* variant: the offset also counts the 4 bytes of the count before the table
NextOffset_file(buffer) == Len(buffer) + 4
\* line 160: the offset kept for the next call
NextOffset(buffer) == Len(buffer)

\* lines 162-170: the returned bytes
AssembleOutput(be, count, table, script) == WriteU32(be, count) \o table \o script

\* ------------------------------------------------------------ the decoder
\* parser.rs ArgValue (TaggedValue inside AccessedValue: tv, with the raw tag kept
\* only by Improper)
AV(t, data, num, str, tv, tag, name) ==
  [t |-> t, data |-> data, num |-> num, str |-> str, tv |-> tv, tag |-> tag, name |-> name]
AUnknown(data) == AV("Unknown", data, 0, <<>>, "", 0, "")
ANumber(num) == AV("Number", <<>>, num, <<>>, "", 0, "")
AString16(str) == AV("String16", <<>>, 0, str, "", 0, "")
AString32(str) == AV("String32", <<>>, 0, str, "", 0, "")
ALiteral(v) == AV("AccessedValue", <<>>, v, <<>>, "Literal", 0, "")
AVariable(v) == AV("AccessedValue", <<>>, v, <<>>, "Variable", 0, "")
AImproper(tag, v) == AV("AccessedValue", <<>>, v, <<>>, "Improper", tag, "")
AEnum(name, num) == AV("Enum", <<>>, num, <<>>, "", 0, name)

\* parser.rs InstructionValue (name "" is None)
InstructionValue(id, name, args, code_block) ==
  [id |-> id, name |-> name, args |-> args, code_block |-> code_block]

\* variant: every tag that is not the literal tag is taken for a variable
TaggedValue_two(db, tag, payload) ==
  IF tag = db.literal_tag THEN ALiteral(payload) ELSE AVariable(payload)
\* parse_sized lines 209-223, parse_unsized lines 283-297: the tagged value
TaggedValue(db, tag, payload) ==
  IF tag = db.literal_tag THEN ALiteral(payload)
  ELSE IF tag = db.variable_tag THEN AVariable(payload)
  ELSE AImproper(tag, payload)

\* the bytes one argument type reads (a huge Unknown length reads past any buffer)
ReadLength(arg_type) ==
  IF arg_type.t = "Unknown" /\ Huge(arg_type.n) THEN -1 ELSE ArgTypeSize(arg_type)

\* parse_sized lines 190-224 / parse_unsized lines 264-298: one argument read
\* from the front of input, which holds at least ReadLength(arg_type) bytes
DecodeArg(db, arg_type, input) ==
  CASE arg_type.t = "Unknown" -> AUnknown(Take(input, arg_type.n))
    [] arg_type.t = "String16" -> AString16(process_string_buf(Take(input, STRING16_SIZE)))
    [] arg_type.t = "String32" -> AString32(process_string_buf(Take(input, STRING32_SIZE)))
    [] arg_type.t = "Number" -> ANumber(GetI32LE(input))
    [] arg_type.t = "Enum" -> AEnum(arg_type.name, GetI32LE(input))
    [] arg_type.t = "AccessedValue" ->
         TaggedValue(db, GetI32LE(input), GetI32LE(Drop(input, 4)))

\* the map over the argument types: the values and the input left, or the panic
\* of a read past the end of the buffer.  An AccessedValue reads its tag and then
\* its payload, so it panics with fewer than 8 bytes either way.
RECURSIVE DecodeArgs(_, _, _)
DecodeArgs(db, arg_types, input) ==
  IF arg_types = <<>> THEN Ok([args |-> <<>>, rest |-> input])
  ELSE LET n == ReadLength(Head(arg_types))
       IN  IF n < 0 \/ n > Len(input) THEN Panic("buffer underrun")
           ELSE LET tail == DecodeArgs(db, Tail(arg_types), Drop(input, n))
                IN  IF tail.kind # "Ok" THEN tail
                    ELSE Ok([args |-> <<DecodeArg(db, Head(arg_types), input)>>
                                       \o tail.v.args,
                             rest |-> tail.v.rest])

\* variant: the 4 bytes of the ID are not taken off the declared size
SizedArgs_noheader(instruction, checked) ==
  LET known_args_size == KnownArgsSize(instruction.args)
  IN  IF known_args_size # instruction.size
      THEN Ok(Append(instruction.args,
                     Unknown(IF instruction.size >= known_args_size
                             THEN instruction.size - known_args_size
                             ELSE 0)))
      ELSE Ok(instruction.args)
\* SizedInstruction::args.  With size below 4 the subtraction overflows: a panic
\* when the build checks overflow (checked), otherwise it wraps, the inequality
\* holds and the saturating left_over is 0.
SizedArgs(instruction, checked) ==
  LET known_args_size == KnownArgsSize(instruction.args)
  IN  IF instruction.size < SIZED_HEADER
      THEN IF checked THEN Panic("attempt to subtract with overflow")
           ELSE Ok(Append(instruction.args, Unknown(0)))
      ELSE IF known_args_size # instruction.size - SIZED_HEADER
      THEN Ok(Append(instruction.args,
                     Unknown(IF instruction.size - SIZED_HEADER >= known_args_size
                             THEN instruction.size - SIZED_HEADER - known_args_size
                             ELSE 0)))
      ELSE Ok(instruction.args)

\* variant: the Unknown argument is appended even when no byte is left for it
args_with_known_size_always(instruction, dynamic_size, checked) ==
  LET known_args_size == KnownArgsSize(instruction.args)
  IN  IF Huge(dynamic_size)
      THEN Ok(Append(instruction.args, Unknown(-1)))
      ELSE IF dynamic_size < UNSIZED_HEADER
      THEN IF checked THEN Panic("attempt to subtract with overflow")
           ELSE Ok(Append(instruction.args,
                          Unknown(IF known_args_size = 0 THEN 0 ELSE -1)))
      ELSE IF known_args_size > dynamic_size - UNSIZED_HEADER
      THEN Panic("dynamic argument size smaller than argument size in config!")
      ELSE Ok(Append(instruction.args,
                     Unknown(dynamic_size - UNSIZED_HEADER - known_args_size)))
\* UnsizedInstruction::args_with_known_size.  dynamic_size below 8 overflows the
\* subtraction: a panic when the build checks overflow; otherwise it wraps to a
\* huge value, no schema exceeds it, and left_over is 0 - known_args_size, which
\* is 0 for no known argument and wraps to a huge length otherwise.
args_with_known_size(instruction, dynamic_size, checked) ==
  LET known_args_size == KnownArgsSize(instruction.args)
  IN  IF Huge(dynamic_size)
      THEN Ok(Append(instruction.args, Unknown(-1)))
      ELSE IF dynamic_size < UNSIZED_HEADER
      THEN IF checked THEN Panic("attempt to subtract with overflow")
           ELSE Ok(Append(instruction.args,
                          Unknown(IF known_args_size = 0 THEN 0 ELSE -1)))
      ELSE IF known_args_size > dynamic_size - UNSIZED_HEADER
      THEN Panic("dynamic argument size smaller than argument size in config!")
      ELSE IF known_args_size # dynamic_size - UNSIZED_HEADER
      THEN Ok(Append(instruction.args,
                     Unknown(dynamic_size - UNSIZED_HEADER - known_args_size)))
      ELSE Ok(instruction.args)

\* UnsizedInstruction::new
UnsizedNew == Instr(0, "", "NoBlock", <<>>)

\* variant: the ID is looked at without being taken from the input
parse_sized_peek(db, input, checked) ==
  IF Len(input) < 4 THEN Panic("buffer underrun")
  ELSE LET instruction_id == GetU32LE(input)
       IN  IF instruction_id \notin DOMAIN db.instructions
           THEN Fail(Err("UnknownInstructionID", NoName, "", instruction_id, 0))
           ELSE LET instruction == db.instructions[instruction_id]
                    arg_types == SizedArgs(instruction, checked)
                IN  IF arg_types.kind # "Ok" THEN arg_types
                    ELSE LET read == DecodeArgs(db, arg_types.v, Drop(input, 4))
                         IN  IF read.kind # "Ok" THEN read
                             ELSE Ok([value |-> InstructionValue(instruction_id,
                                                  instruction.name, read.v.args,
                                                  instruction.code_block),
                                      rest |-> Drop(input, Len(input) - Len(read.v.rest) - 4)])
\* variant: an ID outside the catalog is decoded as an instruction without arguments
parse_sized_lenient(db, input, checked) ==
  IF Len(input) < 4 THEN Panic("buffer underrun")
  ELSE LET instruction_id == GetU32LE(input)
           instruction == IF instruction_id \in DOMAIN db.instructions
                          THEN db.instructions[instruction_id]
                          ELSE Instr(4, "", "NoBlock", <<>>)
           arg_types == SizedArgs(instruction, checked)
       IN  IF arg_types.kind # "Ok" THEN arg_types
           ELSE LET read == DecodeArgs(db, arg_types.v, Drop(input, 4))
                IN  IF read.kind # "Ok" THEN read
                    ELSE Ok([value |-> InstructionValue(instruction_id,
                                         instruction.name, read.v.args,
                                         instruction.code_block),
                             rest |-> read.v.rest])
\* ScriptConfig::parse_sized: one instruction read from the front of input
parse_sized(db, input, checked) ==
  IF Len(input) < 4 THEN Panic("buffer underrun")
  ELSE LET instruction_id == GetU32LE(input)
       IN  IF instruction_id \notin DOMAIN db.instructions
           THEN Fail(Err("UnknownInstructionID", NoName, "", instruction_id, 0))
           ELSE LET instruction == db.instructions[instruction_id]
                    arg_types == SizedArgs(instruction, checked)
                IN  IF arg_types.kind # "Ok" THEN arg_types
                    ELSE LET read == DecodeArgs(db, arg_types.v, Drop(input, 4))
                         IN  IF read.kind # "Ok" THEN read
                             ELSE Ok([value |-> InstructionValue(instruction_id,
                                                  instruction.name, read.v.args,
                                                  instruction.code_block),
                                      rest |-> read.v.rest])

\* ScriptConfig::parse_unsized: one instruction read from the front of input
parse_unsized(db, input, checked) ==
  IF Len(input) < 8 THEN Panic("buffer underrun")
  ELSE LET instruction_id == GetU32LE(input)
           instruction_size == GetU32LE(Drop(input, 4))
           instruction == IF instruction_id \in DOMAIN db.instructions
                          THEN db.instructions[instruction_id]
                          ELSE UnsizedNew
           arg_types == args_with_known_size(instruction, instruction_size, checked)
       IN  IF arg_types.kind # "Ok" THEN arg_types
           ELSE LET read == DecodeArgs(db, arg_types.v, Drop(input, 8))
                IN  IF read.kind # "Ok" THEN read
                    ELSE Ok([value |-> InstructionValue(instruction_id,
                                         instruction.name, read.v.args,
                                         instruction.code_block),
                             rest |-> read.v.rest])

\* ScriptConfig::parse lines 121-127: the counts read, one per jump-table ID
JumpCounts(db, input) ==
  [i \in 1..Len(db.jump_table_ids) |-> GetU32LE(SubSeq(input, 4 * i - 3, 4 * i))]

\* the jump table's size in bytes
JumpTableSize(counts) == JUMP_ENTRY_LENGTH * SumSeq(counts)

\* variant: a table that takes exactly the remaining bytes is let through
JumpTableTooBig_strict(counts, remaining) ==
  \/ \E i \in 1..Len(counts) : Huge(counts[i]) \/ counts[i] > remaining
  \/ JumpTableSize(counts) > remaining
\* line 131: the table does not leave a byte of the remaining input.  A count
\* above the remaining length decides it without the product.
JumpTableTooBig(counts, remaining) ==
  \/ \E i \in 1..Len(counts) : Huge(counts[i]) \/ counts[i] > remaining
  \/ JumpTableSize(counts) >= remaining

\* ScriptConfig::parse up to line 137: the input left for parse_script
ParseJumpTable(db, input) ==
  IF Len(input) < 4 * Len(db.jump_table_ids) THEN Panic("buffer underrun")
  ELSE LET counts == JumpCounts(db, input)
           rest == Drop(input, 4 * Len(db.jump_table_ids))
       IN  IF JumpTableTooBig(counts, Len(rest))
           THEN Fail(Err("IncorrectJumpTableSize", NoName, "",
                         IF \E i \in 1..Len(counts) :
                              Huge(counts[i]) \/ counts[i] > Len(rest)
                         THEN -1 ELSE JumpTableSize(counts), 0))
           ELSE Ok(Drop(rest, JumpTableSize(counts)))

\* ------------------------------------------------------------ the formatter
\* variant: an Enum value is always written as its number
arg_to_string_numeric(config, arg) ==
  CASE arg.t = "Unknown" -> Ok(THex(HexEncode(arg.data)))
    [] arg.t = "Number" -> Ok(TNum(arg.num))
    [] arg.t = "String16" -> Ok(TS16(arg.str))
    [] arg.t = "String32" -> Ok(TS32(arg.str))
    [] arg.t = "AccessedValue" /\ arg.tv = "Improper" -> Ok(TBadTag(arg.tag, arg.num))
    [] arg.t = "AccessedValue" /\ arg.tv = "Variable" ->
         LET names == {p.name : p \in {q \in config.named_variables : q.num = arg.num}}
         IN  IF names # {} THEN Ok(TMemName(CHOOSE x \in names : TRUE))
             ELSE Ok(TMemId(arg.num))
    [] arg.t = "AccessedValue" /\ arg.tv = "Literal" -> Ok(TVal(arg.num))
    [] arg.t = "Enum" ->
         IF arg.name \notin DOMAIN config.named_value_maps
         THEN Panic("no entry found for key")
         ELSE LET names == {p.name : p \in {q \in config.named_value_maps[arg.name] :
                                               q.num = arg.num}}
              IN  Ok(TNum(arg.num))
\* variant: a tagged value of neither tag is written as a literal
arg_to_string_droptag(config, arg) ==
  CASE arg.t = "Unknown" -> Ok(THex(HexEncode(arg.data)))
    [] arg.t = "Number" -> Ok(TNum(arg.num))
    [] arg.t = "String16" -> Ok(TS16(arg.str))
    [] arg.t = "String32" -> Ok(TS32(arg.str))
    [] arg.t = "AccessedValue" /\ arg.tv = "Improper" -> Ok(TVal(arg.num))
    [] arg.t = "AccessedValue" /\ arg.tv = "Variable" ->
         LET names == {p.name : p \in {q \in config.named_variables : q.num = arg.num}}
         IN  IF names # {} THEN Ok(TMemName(CHOOSE x \in names : TRUE))
             ELSE Ok(TMemId(arg.num))
    [] arg.t = "AccessedValue" /\ arg.tv = "Literal" -> Ok(TVal(arg.num))
    [] arg.t = "Enum" ->
         IF arg.name \notin DOMAIN config.named_value_maps
         THEN Panic("no entry found for key")
         ELSE LET names == {p.name : p \in {q \in config.named_value_maps[arg.name] :
                                               q.num = arg.num}}
              IN  IF names # {} THEN Ok(TNamed(CHOOSE x \in names : TRUE))
                  ELSE Ok(TNum(arg.num))
\* parser.rs arg_to_string
arg_to_string(config, arg) ==
  CASE arg.t = "Unknown" -> Ok(THex(HexEncode(arg.data)))
    [] arg.t = "Number" -> Ok(TNum(arg.num))
    [] arg.t = "String16" -> Ok(TS16(arg.str))
    [] arg.t = "String32" -> Ok(TS32(arg.str))
    [] arg.t = "AccessedValue" /\ arg.tv = "Improper" -> Ok(TBadTag(arg.tag, arg.num))
    [] arg.t = "AccessedValue" /\ arg.tv = "Variable" ->
         LET names == {p.name : p \in {q \in config.named_variables : q.num = arg.num}}
         IN  IF names # {} THEN Ok(TMemName(CHOOSE x \in names : TRUE))
             ELSE Ok(TMemId(arg.num))
    [] arg.t = "AccessedValue" /\ arg.tv = "Literal" -> Ok(TVal(arg.num))
    [] arg.t = "Enum" ->
         IF arg.name \notin DOMAIN config.named_value_maps
         THEN Panic("no entry found for key")
         ELSE LET names == {p.name : p \in {q \in config.named_value_maps[arg.name] :
                                               q.num = arg.num}}
              IN  IF names # {} THEN Ok(TNamed(CHOOSE x \in names : TRUE))
                  ELSE Ok(TNum(arg.num))

\* parse_to_string lines 75-79: the name written for an instruction
InstructionName(instruction) ==
  IF instruction.name # "" THEN Word(instruction.name) ELSE UnknownN(instruction.id)

\* variant: the depth is written as it is, without the limit
IndentLevels_unclamped(indent) == indent
\* lines 69-73: the levels of indentation written before the name
IndentLevels(indent) == IF indent > INDENT_LIMIT THEN INDENT_LIMIT ELSE indent

\* variant: End lowers the depth without looking at it
NextIndent_unguarded(indent, code_block) ==
  CASE code_block = "Begin" -> indent + 1
    [] code_block = "End" -> indent - 1
    [] OTHER -> indent
\* variant: Begin does not open a level
NextIndent_flat(indent, code_block) ==
  CASE code_block = "End" -> IF indent > 0 THEN indent - 1 ELSE indent
    [] OTHER -> indent
\* lines 94-105: the depth after the instruction's line
NextIndent(indent, code_block) ==
  CASE code_block = "Begin" -> indent + 1
    [] code_block = "End" -> IF indent > 0 THEN indent - 1 ELSE indent
    [] OTHER -> indent

\* variant: a blank line follows every End that leaves the depth at 0
BlockEnded_anyzero(indent, code_block) == code_block = "End" /\ indent <= 1
\* lines 96-110: a blank line follows the instruction's line
BlockEnded(indent, code_block) == code_block = "End" /\ indent = 1

\* ------------------------------------------------------------ inputs
LE(n) == WriteU32(FALSE, n)
Name32(chars) == Resize(chars, STRING32_SIZE)

\* lines a readable script is written from
TextLines ==
  {Line(0, UnknownN(1), <<TNum(42)>>),
   Line(0, UnknownN(1), <<TNum(42), TNum(7)>>),
   Line(0, UnknownN(77), <<TNum(5)>>),
   Line(0, UnknownN(77), <<TNamed("Red")>>),
   Line(0, Word("State"), <<>>),
   Line(0, Word("State"), <<TNum(5)>>),
   Line(0, Word("Bogus"), <<TNum(1)>>),
   Line(0, Word("State"), <<TS32(<<65>>)>>),
   Line(0, Word("Sub"), <<TS32(<<66>>)>>),
   Line(0, Word("EndIf"), <<>>),
   Line(0, Word("Foo"), <<TNamed("Blue")>>),
   Line(0, Word("Foo"), <<TNamed("Green")>>),
   Line(0, Word("Foo"), <<TNamed("Green"), TNamed("Red")>>),
   Line(0, UnknownN(1), <<TNamed("Red")>>),
   Line(0, Word("Pad"), <<TNum(9), TNamed("Red")>>),
   Line(0, Word("Tag"), <<TS16([i \in 1..17 |-> 65])>>),
   Line(0, Word("Acc"), <<TVal(5)>>),
   Line(0, Word("Pad"), <<TNum(9)>>),
   Line(0, Word("Pad"), <<TNum(9), THex(<<0, 1, 0, 2, 0, 3, 0, 4>>)>>)}

\* instruction records a binary script is made of, for each catalog mode
SizedRecords ==
  {LE(1) \o LE(42),
   LE(16) \o Name32(<<65>>),
   LE(17) \o Name32(<<66>>),
   LE(3),
   LE(5) \o LE(0) \o LE(5),
   LE(5) \o LE(2) \o LE(3),
   LE(5) \o LE(2) \o LE(4),
   LE(5) \o LE(9) \o LE(7),
   LE(6) \o LE(9) \o <<1, 2, 3, 4>>,
   LE(32) \o LE(2),
   LE(32) \o LE(7),
   LE(33) \o LE(1),
   LE(18) \o Resize(<<39, 0, 66>>, STRING16_SIZE),
   LE(99),
   LE(1) \o <<42, 0>>,
   <<1, 0>>}
UnsizedRecords ==
  {LE(1) \o LE(12) \o LE(42),
   LE(1) \o LE(8),
   LE(16) \o LE(40) \o Name32(<<65>>),
   LE(3) \o LE(8),
   LE(5) \o LE(16) \o LE(0) \o LE(5),
   LE(5) \o LE(16) \o LE(9) \o LE(7),
   LE(6) \o LE(16) \o LE(9) \o <<1, 2, 3, 4>>,
   LE(99) \o LE(16) \o <<1, 2, 3, 4, 5, 6, 7, 8>>,
   LE(99) \o LE(8),
   LE(99) \o LE(4),
   LE(32) \o LE(12) \o LE(7),
   LE(1) \o LE(12) \o <<42, 0>>,
   <<1, 0>>}
Records(db) == IF db.is_sized THEN SizedRecords ELSE UnsizedRecords

\* The jump table of a script made of the given records, in the layout of the
\* format: a count per jump-table ID in the catalog's order, then the entries
\* (32-byte name, offset of the record in the instruction stream) of each ID
\* in that order.
RecordId(r) == IF Len(r) >= 4 THEN GetU32LE(r) ELSE -1
RecordStart(records, k) == SumSeq([i \in 1..(k - 1) |-> Len(records[i])])
RecordName(db, r) ==
  IF db.is_sized THEN SubSeq(r, 5, 36) ELSE SubSeq(r, 9, 40)
RECURSIVE EntriesOf(_, _, _, _)
EntriesOf(db, id, records, k) ==
  IF k > Len(records) THEN <<>>
  ELSE (IF RecordId(records[k]) = id
        THEN <<RecordName(db, records[k]) \o LE(RecordStart(records, k))>>
        ELSE <<>>) \o EntriesOf(db, id, records, k + 1)
FormatJumpTable(db, records) ==
  LET ids == db.jump_table_ids
      groups == [i \in 1..Len(ids) |-> EntriesOf(db, ids[i], records, 1)]
  IN  Concat([i \in 1..Len(ids) |-> LE(Len(groups[i]))])
      \o Concat([i \in 1..Len(ids) |-> Concat(groups[i])])

\* a table of one entry whatever the records are
OneEntryTable(db) ==
  Concat([i \in 1..Len(db.jump_table_ids) |-> LE(IF i = 1 THEN 1 ELSE 0)])
  \o (IF db.jump_table_ids = <<>> THEN <<>> ELSE Name32(<<65>>) \o LE(0))

\* the tables a binary script comes with
Headers(db, records) == {FormatJumpTable(db, records), OneEntryTable(db)}

\* ------------------------------------------------------------ state
VARIABLES
  game,              \* main.rs ConfigArgs: the catalog the run is given
  big_endian,        \* main.rs MainCli::big_endian: the byte order B
  mode,              \* "rebuild": text -> bytes -> text;  "parse": bytes -> text -> bytes
  phase,             \* where the run is
  src_text,          \* the readable script given to the rebuilder
  program,           \* rebuild_bbscript: program (Vec<BBSFunction>)
  pos,               \* assemble_script: calls of program consumed by the loop
  offset,            \* assemble_script: offset
  script_buffer,     \* assemble_script: script_buffer
  jump_entry_count,  \* assemble_script: jump_entry_count
  jump_table_buffer, \* assemble_script: jump_table_buffer
  enc_result,        \* what rebuild_bbscript returned
  records,           \* the records of the binary script given to the parser
  in_file,           \* the bytes given to ScriptConfig::parse
  input,             \* parse: input, the bytes not yet consumed
  dprogram,          \* parse_script: program (Vec<InstructionValue>)
  dec_result,        \* what ScriptConfig::parse returned
  out,               \* parse_to_string: out
  indent,            \* parse_to_string: indent
  fpos,              \* parse_to_string: instructions of program consumed
  fmt_result         \* what parse_to_string returned

vars ==
  <<game, big_endian, mode, phase, src_text, program, pos, offset, script_buffer,
    jump_entry_count, jump_table_buffer, enc_result, records, in_file, input,
    dprogram, dec_result, out, indent, fpos, fmt_result>>

encVars == <<program, pos, offset, script_buffer, jump_entry_count, jump_table_buffer, enc_result>>
decVars == <<in_file, input, dprogram, dec_result>>
fmtVars == <<out, indent, fpos, fmt_result>>
runVars == <<game, big_endian, mode>>

\* main.rs get_config: the ScriptConfig of the run
db == Catalogs[game]

None == [kind |-> "none", v |-> <<>>, err |-> NoErr]

Init ==
  /\ game \in DOMAIN Catalogs
  /\ big_endian \in BOOLEAN
  /\ mode \in {"rebuild", "parse"}
  /\ phase = IF mode = "rebuild" THEN "edit" ELSE "gen"
  /\ src_text = <<>>
  /\ program = <<>>
  /\ pos = 0
  /\ offset = 0
  /\ script_buffer = <<>>
  /\ jump_entry_count = 0
  /\ jump_table_buffer = <<>>
  /\ enc_result = None
  /\ records = <<>>
  /\ in_file = <<>>
  /\ input = <<>>
  /\ dprogram = <<>>
  /\ dec_result = None
  /\ out = <<>>
  /\ indent = 0
  /\ fpos = 0
  /\ fmt_result = None

\* ------------------------------------------------------------ the inputs of a run
\* one more line is written to the readable script
AddLine(l) ==
  /\ phase = "edit"
  /\ Len(src_text) < MaxLines
  /\ src_text' = Append(src_text, l)
  /\ UNCHANGED <<runVars, phase, encVars, records, decVars, fmtVars>>

\* one more record is put in the binary script
AddRecord(r) ==
  /\ phase = "gen"
  /\ Len(records) < MaxRecords
  /\ records' = Append(records, r)
  /\ UNCHANGED <<runVars, phase, src_text, encVars, decVars, fmtVars>>

\* main.rs run_parser / load_file: the binary script, its jump table first
LoadFile(h) ==
  /\ phase = "gen"
  /\ in_file' = h \o Concat(records)
  /\ phase' = "hdr"
  /\ UNCHANGED <<runVars, src_text, encVars, records, input, dprogram, dec_result, fmtVars>>

\* the file run_rebuilder wrote is given to run_parser
LoadBuilt ==
  /\ phase = "built"
  /\ in_file' = enc_result.v
  /\ phase' = "hdr"
  /\ UNCHANGED <<runVars, src_text, encVars, records, input, dprogram, dec_result, fmtVars>>

\* ------------------------------------------------------------ rebuild
\* rebuild_bbscript lines 18-23: the text is parsed into the program
ReadText ==
  /\ phase \in {"edit", "text"}
  /\ LET text == IF mode = "rebuild" THEN src_text ELSE out
     IN  IF TextSyntaxError(text)
         THEN /\ enc_result' = Fail(Err("PestConsumeError", NoName, "", 0, 0))
              /\ phase' = "done"
              /\ program' = program
         ELSE /\ program' = ParserProgram(text)
              /\ phase' = "asm"
              /\ enc_result' = enc_result
  /\ UNCHANGED <<runVars, src_text, pos, offset, script_buffer, jump_entry_count,
                 jump_table_buffer, records, decVars, fmtVars>>

\* assemble_script lines 44-161: one pass of the loop over the program
AssembleStep ==
  /\ phase = "asm"
  /\ pos < Len(program)
  /\ LET instruction == program[pos + 1]
         resolved == ResolveInstruction(db, instruction)
         instruction_info == resolved.v
         written == EncodeArgs(db, big_endian, instruction_info, 0, instruction.args)
         failure ==
           IF resolved.kind # "Ok" THEN resolved
           ELSE IF SizeMismatch(instruction, instruction_info)
           THEN Fail(Err("IncorrectFunctionSize", instruction.name, "",
                         total_size(instruction), instruction_info.size))
           ELSE IF written.kind # "Ok" THEN written
           ELSE None
     IN  IF failure.kind # "none"
         THEN /\ enc_result' = failure
              /\ phase' = "done"
              /\ UNCHANGED <<pos, offset, script_buffer, jump_entry_count, jump_table_buffer>>
         ELSE /\ script_buffer' = script_buffer
                                  \o RecordHeader(db, big_endian, instruction_info, instruction)
                                  \o written.v
              /\ IF AddsJumpEntry(db, instruction_info, instruction)
                 THEN /\ jump_table_buffer' = jump_table_buffer
                           \o JumpEntry(big_endian, instruction.args[1].bytes, offset)
                      /\ jump_entry_count' = jump_entry_count + 1
                 ELSE UNCHANGED <<jump_table_buffer, jump_entry_count>>
              /\ offset' = NextOffset(script_buffer')
              /\ pos' = pos + 1
              /\ UNCHANGED <<enc_result, phase>>
  /\ UNCHANGED <<runVars, src_text, program, records, decVars, fmtVars>>

\* assemble_script lines 162-170: the jump table is put before the records
AssembleFinish ==
  /\ phase = "asm"
  /\ pos = Len(program)
  /\ enc_result' = Ok(AssembleOutput(big_endian, jump_entry_count, jump_table_buffer,
                                     script_buffer))
  /\ phase' = IF mode = "rebuild" THEN "built" ELSE "done"
  /\ UNCHANGED <<runVars, src_text, program, pos, offset, script_buffer, jump_entry_count,
                 jump_table_buffer, records, decVars, fmtVars>>

\* ------------------------------------------------------------ parse
\* ScriptConfig::parse lines 116-137: the jump table is measured and skipped
ParseHeader ==
  /\ phase = "hdr"
  /\ LET r == ParseJumpTable(db, in_file)
     IN  IF r.kind = "Ok"
         THEN /\ input' = r.v
              /\ phase' = "dec"
              /\ dec_result' = dec_result
         ELSE /\ dec_result' = r
              /\ phase' = "done"
              /\ input' = input
  /\ UNCHANGED <<runVars, src_text, encVars, records, in_file, dprogram, fmtVars>>

\* parse_script: one pass of the loop, parse_sized or parse_unsized; the loop
\* ends with Ok(program) when no byte remains
ParseStep(checked) ==
  /\ phase = "dec"
  /\ Len(input) # 0
  /\ LET r == IF db.is_sized THEN parse_sized(db, input, checked)
              ELSE parse_unsized(db, input, checked)
     IN  IF r.kind = "Ok"
         THEN /\ dprogram' = Append(dprogram, r.v.value)
              /\ input' = r.v.rest
              /\ IF Len(r.v.rest) = 0
                 THEN dec_result' = Ok(<<>>) /\ phase' = "fmt"
                 ELSE UNCHANGED <<dec_result, phase>>
         ELSE /\ dec_result' = r
              /\ phase' = "done"
              /\ UNCHANGED <<dprogram, input>>
  /\ UNCHANGED <<runVars, src_text, encVars, records, in_file, fmtVars>>

\* parse_to_string lines 67-111: one pass of the loop over the decoded program;
\* after the last one the text is returned
FormatStep ==
  /\ phase = "fmt"
  /\ fpos < Len(dprogram)
  /\ LET instruction == dprogram[fpos + 1]
         shown == [i \in 1..Len(instruction.args) |-> arg_to_string(db, instruction.args[i])]
     IN  IF \E i \in 1..Len(shown) : shown[i].kind # "Ok"
         THEN /\ fmt_result' = shown[CHOOSE i \in 1..Len(shown) : shown[i].kind # "Ok"]
              /\ phase' = "done"
              /\ UNCHANGED <<out, indent, fpos>>
         ELSE /\ out' = out
                   \o <<Line(IndentLevels(indent) * INDENT_SPACES,
                             InstructionName(instruction),
                             [i \in 1..Len(shown) |-> shown[i].v])>>
                   \o (IF BlockEnded(indent, instruction.code_block)
                       THEN <<BlankLine>> ELSE <<>>)
              /\ indent' = NextIndent(indent, instruction.code_block)
              /\ fpos' = fpos + 1
              /\ IF fpos + 1 = Len(dprogram)
                 THEN /\ fmt_result' = Ok(<<>>)
                      /\ phase' = IF mode = "parse" THEN "text" ELSE "done"
                 ELSE UNCHANGED <<fmt_result, phase>>
  /\ UNCHANGED <<runVars, src_text, encVars, records, decVars>>

Next ==
  \/ \E l \in TextLines : AddLine(l)
  \/ \E r \in Records(db) : AddRecord(r)
  \/ \E h \in Headers(db, records) : LoadFile(h)
  \/ LoadBuilt
  \/ ReadText
  \/ AssembleStep
  \/ AssembleFinish
  \/ ParseHeader
  \/ \E checked \in BOOLEAN : ParseStep(checked)
  \/ FormatStep

Spec == Init /\ [][Next]_vars

\* ------------------------------------------------------------ nested scripts
\* The parser run on binary scripts of deep nesting: up to MaxNest block-opening
\* records in a row, then up to MaxTail records of any kind, in a fixed-size
\* catalog without jump table.
MaxNest == 13
MaxTail == 3

\* the records such a script is made of: If (Begin), EndIf (End), Unknown1
\* (NoBlock), Big (argument types of 8 bytes in a size of 8) and Tiny (size 2)
NestedRecords ==
  {LE(2), LE(3), LE(1) \o LE(42), LE(7) \o LE(1) \o LE(2), LE(8)}

\* the block-opening records the script begins with, up to MaxNest of them
RECURSIVE LeadingBegins(_, _)
LeadingBegins(recs, k) ==
  IF k < Len(recs) /\ k < MaxNest /\ recs[k + 1] = LE(2)
  THEN LeadingBegins(recs, k + 1) ELSE k

NestedInit ==
  /\ Init
  /\ game = "sized_j0"
  /\ mode = "parse"
  /\ ~big_endian

\* one more record is put in the binary script
AddNested(r) ==
  /\ phase = "gen"
  /\ LET lead == LeadingBegins(records, 0)
     IN  \/ r = LE(2) /\ lead = Len(records) /\ lead < MaxNest
         \/ Len(records) - lead < MaxTail
  /\ records' = Append(records, r)
  /\ UNCHANGED <<runVars, phase, src_text, encVars, decVars, fmtVars>>

NestedNext ==
  \/ \E r \in NestedRecords : AddNested(r)
  \/ \E h \in Headers(db, records) : LoadFile(h)
  \/ ParseHeader
  \/ \E checked \in BOOLEAN : ParseStep(checked)
  \/ FormatStep

NestedSpec == NestedInit /\ [][NestedNext]_vars

\* ------------------------------------------------------------ round trips
\* what a text says: the names and arguments of its instruction lines, in order,
\* without the indentation and the blank lines
RECURSIVE Content(_)
Content(text) ==
  IF text = <<>> THEN <<>>
  ELSE (IF Head(text).blank THEN <<>>
        ELSE <<[name |-> Head(text).name, args |-> Head(text).args]>>)
       \o Content(Tail(text))

\* the rebuild-first run is over: the text was encoded, and the bytes decoded
\* and formatted, as far as each step went
RebuildRunOver == mode = "rebuild" /\ phase = "done"
\* the parse-first run is over
ParseRunOver == mode = "parse" /\ phase = "done"

\* C1: text round trip.  Whenever the encoder accepts a text, decoding its
\* output with the same catalog and formatting the result gives back the
\* names and arguments of the text, in order.
C1_TextRoundTrip ==
  (RebuildRunOver /\ enc_result.kind = "Ok")
    => (fmt_result.kind = "Ok" /\ Content(out) = Content(src_text))

\* the binary script carries the jump table its records call for
TableConsistent == in_file = FormatJumpTable(db, records) \o Concat(records)

\* C2: byte round trip.  Whenever a binary script with a consistent jump table
\* decodes and formats, encoding the text gives back the same bytes.
C2_ByteRoundTrip ==
  (ParseRunOver /\ TableConsistent /\ dec_result.kind = "Ok" /\ fmt_result.kind = "Ok")
    => (enc_result.kind = "Ok" /\ enc_result.v = in_file)

\* ------------------------------------------------------------ the jump-table check
\* C3: once the counts are read, decode returns IncorrectJumpTableSize, with no
\* instruction decoded, exactly when 36 times the sum of the counts is at least
\* the number of bytes left after the counts; otherwise it skips that many
\* bytes and goes on to the instructions.
C3_JumpTableSizeCheck ==
  [][(phase = "hdr" /\ Len(in_file) >= 4 * Len(db.jump_table_ids)) =>
       LET n == Len(db.jump_table_ids)
           counts == [i \in 1..n |-> GetU32LE(SubSeq(in_file, 4 * i - 3, 4 * i))]
           remaining == Len(in_file) - 4 * n
       IN  IF SumSeq(counts) >= (remaining + 35) \div 36
           THEN /\ dec_result'.kind = "Err"
                /\ dec_result'.err.kind = "IncorrectJumpTableSize"
                /\ dprogram' = <<>>
                /\ phase' = "done"
           ELSE /\ dec_result'.kind = "none"
                /\ phase' = "dec"
                /\ input' = Drop(in_file, 4 * n + 36 * SumSeq(counts))]_vars

\* a table of one entry that takes all the bytes after the count is refused
C3_Witness ==
  /\ dec_result.kind = "Err"
  /\ dec_result.err.kind = "IncorrectJumpTableSize"
  /\ dec_result.err.n1 = 36
  /\ Len(in_file) = 40

\* ------------------------------------------------------------ the size check
\* the bytes an argument of a call takes in a record
EncodedSize(info, index, arg) ==
  LET e == EncodeArg(db, big_endian, info, index, arg)
  IN  IF e.kind = "Ok" THEN Len(e.v) ELSE IF arg.k = "Named" THEN 4 ELSE 8
ComputedSize(info, call) ==
  4 + SumSeq([i \in 1..Len(call.args) |-> EncodedSize(info, i - 1, call.args[i])])

\* C4: a call resolved to a schema with a declared size whose 4 + argument
\* bytes differ from it makes encoding fail with IncorrectFunctionSize (name,
\* computed size, declared size) and no bytes; a record that is written has
\* exactly the bytes of its arguments after the ID, and the declared size.
C4_SizeConsistency ==
  [][(phase = "asm" /\ pos < Len(program)) =>
       LET call == program[pos + 1]
           resolved == ResolveInstruction(db, call)
       IN  (resolved.kind = "Ok" /\ resolved.v.variant = "Sized") =>
             LET computed == ComputedSize(resolved.v, call)
             IN  /\ computed # resolved.v.size =>
                      /\ enc_result' = Fail(Err("IncorrectFunctionSize", call.name, "",
                                                computed, resolved.v.size))
                      /\ enc_result'.v = <<>>
                      /\ phase' = "done"
                 /\ pos' = pos + 1 =>
                      /\ Len(script_buffer') - Len(script_buffer) = computed
                      /\ computed = resolved.v.size]_vars

\* `Pad: 9` (8 bytes) against the declared 12 is refused, not padded
C4_Witness ==
  /\ enc_result.kind = "Err"
  /\ enc_result.err.kind = "IncorrectFunctionSize"
  /\ enc_result.err.nm = Word("Pad")
  /\ enc_result.err.n1 = 8
  /\ enc_result.err.n2 = 12

\* ------------------------------------------------------------ tagged values
\* the bytes a decoded argument was read from
ValueWidth(arg) ==
  CASE arg.t = "Unknown" -> Len(arg.data)
    [] arg.t \in {"Number", "Enum"} -> 4
    [] arg.t = "String16" -> 16
    [] arg.t = "String32" -> 32
    [] arg.t = "AccessedValue" -> 8
HeaderWidth == IF db.is_sized THEN 4 ELSE 8

\* the input begins with a whole record of a schema of the catalog
WholeRecord ==
  IF db.is_sized
  THEN /\ Len(input) >= 4
       /\ GetU32LE(input) \in DOMAIN db.instructions
       /\ LET schema == db.instructions[GetU32LE(input)]
          IN  /\ schema.size >= 4
              /\ KnownArgsSize(schema.args) <= schema.size - 4
              /\ Len(input) >= schema.size
  ELSE /\ Len(input) >= 8
       /\ GetU32LE(input) \in DOMAIN db.instructions
       /\ LET schema == db.instructions[GetU32LE(input)]
              size == GetU32LE(Drop(input, 4))
          IN  /\ size >= 8
              /\ KnownArgsSize(schema.args) <= size - 8
              /\ Len(input) >= size
HasAccessedValue(schema) == \E i \in 1..Len(schema.args) : schema.args[i].t = "AccessedValue"

\* C5: in both modes an AccessedValue argument decodes to Literal(payload) when
\* its tag is literal_tag, Variable(payload) when it is variable_tag, and
\* Improper{tag, payload} otherwise; a whole record with such an argument
\* always decodes, whatever the tag.
C5_TagClassification ==
  [][phase = "dec" =>
       /\ (WholeRecord /\ HasAccessedValue(db.instructions[GetU32LE(input)]))
            => Len(dprogram') = Len(dprogram) + 1
       /\ Len(dprogram') = Len(dprogram) + 1 =>
            LET iv == dprogram'[Len(dprogram')]
                at(i) == HeaderWidth + SumSeq([j \in 1..(i - 1) |-> ValueWidth(iv.args[j])])
            IN  \A i \in 1..Len(iv.args) :
                  iv.args[i].t = "AccessedValue" =>
                    LET tag == GetI32LE(Drop(input, at(i)))
                        payload == GetI32LE(Drop(input, at(i) + 4))
                    IN  /\ tag = db.literal_tag => iv.args[i] = ALiteral(payload)
                        /\ tag = db.variable_tag => iv.args[i] = AVariable(payload)
                        /\ tag \notin {db.literal_tag, db.variable_tag}
                             => iv.args[i] = AImproper(tag, payload)]_vars

\* the tag 9 is neither tag of the catalog: Improper{9, 7} was decoded
C5_Witness ==
  \E k \in 1..Len(dprogram) : \E i \in 1..Len(dprogram[k].args) :
    dprogram[k].args[i] = AImproper(9, 7)

\* ------------------------------------------------------------ synthesized arguments
\* C6: in fixed-size mode, a schema whose declared types sum to less than
\* size - 4 decodes to the declared arguments followed by one Unknown of
\* exactly the remainder; with an exact sum nothing is appended.
C6_UnknownSynthesis ==
  db.is_sized =>
    \A k \in 1..Len(dprogram) :
      LET iv == dprogram[k]
          schema == db.instructions[iv.id]
          declared == schema.args
          known == SumSeq([i \in 1..Len(declared) |-> ArgTypeSize(declared[i])])
          room == schema.size - 4
      IN  /\ known <= room =>
                \A i \in 1..Len(declared) : iv.args[i].t = declared[i].t
          /\ known < room =>
                /\ Len(iv.args) = Len(declared) + 1
                /\ iv.args[Len(iv.args)].t = "Unknown"
                /\ Len(iv.args[Len(iv.args)].data) = room - known
          /\ known = room => Len(iv.args) = Len(declared)

\* Pad (size 12, one Number) decoded with the 4 bytes left as an Unknown
C6_Witness ==
  \E k \in 1..Len(dprogram) :
    /\ db.is_sized
    /\ dprogram[k].id = 6
    /\ dprogram[k].args = <<ANumber(9), AUnknown(<<1, 2, 3, 4>>)>>

\* ------------------------------------------------------------ the jump table written
\* the calls of the program as the encoder resolves them, the bytes of their
\* records and the place of each record in the instruction stream
CallInfo(k) == ResolveInstruction(db, program[k]).v
CallLength(k) ==
  (IF IsUnsized(db) THEN 8 ELSE 4)
    + SumSeq([i \in 1..Len(program[k].args) |-> ParserValueSize(program[k].args[i])])
CallStart(k) == SumSeq([j \in 1..(k - 1) |-> CallLength(j)])
MakesEntry(k) ==
  /\ ResolveInstruction(db, program[k]).kind = "Ok"
  /\ AddsJumpEntry(db, CallInfo(k), program[k])
EntryOf(k) == program[k].args[1].bytes \o WriteU32(big_endian, CallStart(k))

\* the entries of the calls with opcode `id`, in the order of the script
GroupOf(id) ==
  Concat([k \in 1..Len(program) |->
            IF MakesEntry(k) /\ CallInfo(k).id = id THEN EntryOf(k) ELSE <<>>])
GroupCount(id) ==
  SumSeq([k \in 1..Len(program) |-> IF MakesEntry(k) /\ CallInfo(k).id = id THEN 1 ELSE 0])
\* one count per jump-eligible ID, then one group of entries per ID
TablePerId ==
  Concat([i \in 1..Len(db.jump_table_ids) |-> WriteU32(big_endian, GroupCount(db.jump_table_ids[i]))])
    \o Concat([i \in 1..Len(db.jump_table_ids) |-> GroupOf(db.jump_table_ids[i])])

\* C7: the output of the encoder begins with one 4-byte count per jump-eligible
\* ID of the catalog, in the catalog's order, then the entries grouped per ID
\* in that order, then the instruction records.
C7_JumpTableLayout ==
  enc_result.kind = "Ok" => enc_result.v = TablePerId \o script_buffer

\* C8: every entry written while encoding is the 32-byte name of the call's
\* first argument followed by the position, in the instruction stream alone,
\* of the first byte of that call's opcode ID; entries are in script order.
C8_JumpEntryOffsets ==
  (phase = "asm" \/ enc_result.kind = "Ok") =>
    /\ jump_table_buffer =
         Concat([k \in 1..pos |-> IF MakesEntry(k) THEN EntryOf(k) ELSE <<>>])
    /\ \A k \in 1..pos :
         MakesEntry(k) =>
           /\ Len(program[k].args[1].bytes) = 32
           /\ SubSeq(script_buffer, CallStart(k) + 1, CallStart(k) + 4)
                = WriteU32(big_endian, CallInfo(k).id)

\* two labelled blocks: the second entry points past the first record
C8_Witness ==
  /\ enc_result.kind = "Ok"
  /\ jump_entry_count = 2
  /\ Len(jump_table_buffer) = 72
  /\ CallStart(2) = 36

\* ------------------------------------------------------------ resolution
\* a call that names nothing of the catalog
NotInCatalog(call) ==
  /\ get_by_name(db, call.name) = {}
  /\ call.name.w = "Unknown" => call.name.n \notin DOMAIN db.instructions

\* C9: with a fixed-size catalog the encoder stops with an error at a call that
\* names nothing of the catalog: it writes no record for it and returns no
\* output.
C9_NoFallbackWhenSized ==
  db.is_sized =>
    \A k \in 1..Len(program) :
      NotInCatalog(program[k]) => (pos < k /\ enc_result.kind # "Ok")

\* ------------------------------------------------------------ unknown opcodes
\* the input begins with a whole dynamic-size record of an ID outside the catalog
UnknownRecord ==
  /\ phase = "dec"
  /\ ~db.is_sized
  /\ Len(input) >= 8
  /\ GetU32LE(input) \notin DOMAIN db.instructions
  /\ GetU32LE(Drop(input, 4)) >= 8
  /\ GetU32LE(Drop(input, 4)) <= Len(input)
DecodedUnknown(args) ==
  /\ dprogram' = Append(dprogram,
                        InstructionValue(GetU32LE(input), "", args, "NoBlock"))
  /\ input' = Drop(input, GetU32LE(Drop(input, 4)))
  /\ dec_result'.kind # "Err"
  /\ dec_result'.kind # "Panic"
  /\ phase' \in {"dec", "fmt"}

\* C10 as stated: a record of an ID outside the catalog with declared size s
\* decodes to an unnamed NoBlock instruction with a single Unknown argument of
\* the s - 8 payload bytes, and decoding goes on.
C10_UnknownOpcodeOneArg ==
  [][UnknownRecord =>
       DecodedUnknown(<<AUnknown(SubSeq(input, 9, GetU32LE(Drop(input, 4))))>>)]_vars

\* C10: a whole record of an ID outside the catalog with declared size s
\* decodes to an unnamed NoBlock instruction; its arguments are one Unknown of
\* the s - 8 payload bytes when s > 8 and none when s = 8; decoding goes on.
C10_UnknownOpcode ==
  [][UnknownRecord =>
       DecodedUnknown(IF GetU32LE(Drop(input, 4)) = 8 THEN <<>>
                      ELSE <<AUnknown(SubSeq(input, 9, GetU32LE(Drop(input, 4))))>>)]_vars

\* ID 99 with size 16 was decoded to one Unknown of 8 bytes
C10_Witness ==
  \E k \in 1..Len(dprogram) :
    /\ ~db.is_sized
    /\ dprogram[k].id = 99
    /\ dprogram[k].name = ""
    /\ Len(dprogram[k].args) = 1
    /\ dprogram[k].args[1].t = "Unknown"
    /\ Len(dprogram[k].args[1].data) = 8

\* ------------------------------------------------------------ unknown opcodes, fixed size
\* C11: in fixed-size mode, an opcode ID outside the catalog met at any place
\* of the stream ends the decode with UnknownInstructionID carrying that ID;
\* no instruction sequence is returned and nothing is formatted.
C11_UnknownIdFatal ==
  [][(phase = "dec" /\ db.is_sized /\ Len(input) >= 4
        /\ GetU32LE(input) \notin DOMAIN db.instructions) =>
       /\ dec_result' = Fail(Err("UnknownInstructionID", NoName, "", GetU32LE(input), 0))
       /\ dec_result'.v = <<>>
       /\ phase' = "done"
       /\ out' = <<>>
       /\ fmt_result'.kind = "none"]_vars

\* the ID 99 met after one instruction was decoded
C11_Witness ==
  /\ db.is_sized
  /\ dec_result.kind = "Err"
  /\ dec_result.err.kind = "UnknownInstructionID"
  /\ dec_result.err.n1 = 99
  /\ Len(dprogram) = 1

\* ------------------------------------------------------------ records smaller than the schema
\* the input begins with a dynamic-size record whose declared size leaves fewer
\* bytes after the 8-byte header than the known arguments of its schema take
TooSmallForSchema ==
  /\ phase = "dec"
  /\ ~db.is_sized
  /\ Len(input) >= 8
  /\ LET id == GetU32LE(input)
         size == GetU32LE(Drop(input, 4))
         schema == IF id \in DOMAIN db.instructions THEN db.instructions[id] ELSE UnsizedNew
     IN  ~Huge(size) /\ size - 8 < KnownArgsSize(schema.args)

\* C12: a dynamic-size record whose declared size minus 8 is smaller than the
\* bytes of the schema's known arguments (a declared size below 8 included)
\* makes decode return an error value; it neither panics nor goes on.
C12_MismatchIsTypedError ==
  [][TooSmallForSchema => (dec_result'.kind = "Err" /\ phase' = "done")]_vars

\* ------------------------------------------------------------ truncated input
\* the input ends before the counts of the jump table are read
TruncatedCounts == phase = "hdr" /\ Len(in_file) < 4 * Len(db.jump_table_ids)
\* the input ends inside an opcode ID, or inside the size field after it
TruncatedHeader ==
  /\ phase = "dec"
  /\ Len(input) > 0
  /\ Len(input) < HeaderWidth
\* the input ends inside the arguments of a record its schema has room for
TruncatedArgs ==
  /\ phase = "dec"
  /\ Len(input) >= HeaderWidth
  /\ GetU32LE(input) \in DOMAIN db.instructions
  /\ LET schema == db.instructions[GetU32LE(input)]
         size == IF db.is_sized THEN schema.size ELSE GetU32LE(Drop(input, 4))
     IN  /\ ~Huge(size)
         /\ size - HeaderWidth >= KnownArgsSize(schema.args)
         /\ Len(input) < size

\* C13: when the input ends before the counts, an opcode ID, a size field or
\* an argument is fully read, decode returns an error value.
C13_TruncationIsTypedError ==
  [][(TruncatedCounts \/ TruncatedHeader \/ TruncatedArgs) =>
       (dec_result'.kind = "Err" /\ phase' = "done")]_vars

\* ------------------------------------------------------------ the size field written
\* C14: a record written by the encoder is the opcode ID, then, exactly when
\* the catalog is in dynamic-size mode, a 4-byte size field holding the length
\* of the whole record (8 + the argument bytes written), then the argument
\* bytes; decoding such a record consumes exactly its bytes.
C14_SizeField ==
  [][(phase = "asm" /\ pos' = pos + 1) =>
       LET call == program[pos + 1]
           info == ResolveInstruction(db, call).v
           rec == Drop(script_buffer', Len(script_buffer))
           argbytes == EncodeArgs(db, big_endian, info, 0, call.args).v
           more == <<7, 7, 7, 7, 7, 7, 7, 7>>
       IN  /\ Take(script_buffer', Len(script_buffer)) = script_buffer
           /\ Take(rec, 4) = WriteU32(big_endian, info.id)
           /\ IF IsUnsized(db)
              THEN /\ SubSeq(rec, 5, 8) = WriteU32(big_endian, Len(rec))
                   /\ Drop(rec, 8) = argbytes
                   /\ Len(rec) = 8 + Len(argbytes)
                   /\ (~big_endian /\ parse_unsized(db, rec \o more, TRUE).kind = "Ok")
                        => parse_unsized(db, rec \o more, TRUE).v.rest = more
              ELSE /\ Drop(rec, 4) = argbytes
                   /\ Len(rec) = 4 + Len(argbytes)]_vars

\* a 12-byte record of a dynamic-size catalog, its size field holding 12
C14_Witness ==
  /\ IsUnsized(db)
  /\ enc_result.kind = "Ok"
  /\ Len(script_buffer) = 12
  /\ SubSeq(script_buffer, 5, 8) = WriteU32(big_endian, 12)

\* ------------------------------------------------------------ named variants
\* the call the encoder is about to take and the schema it resolves to
NextCall == program[pos + 1]
NextInfo == ResolveInstruction(db, NextCall).v
AtResolvedCall ==
  /\ phase = "asm"
  /\ pos < Len(program)
  /\ ResolveInstruction(db, NextCall).kind = "Ok"

\* argument i (from 1) of the call is a named variant where the schema
\* declares an Enum / declares none (another type, or no argument there)
NamedAtEnum(i) ==
  /\ NextCall.args[i].k = "Named"
  /\ i <= Len(NextInfo.args)
  /\ NextInfo.args[i].t = "Enum"
NamedOffEnum(i) ==
  /\ NextCall.args[i].k = "Named"
  /\ ~(i <= Len(NextInfo.args) /\ NextInfo.args[i].t = "Enum")

\* the encoder gets as far as argument i: the call passes the size check of a
\* fixed-size schema and the arguments before i are written
ReachesArg(i) ==
  /\ NextInfo.variant = "Sized" => ComputedSize(NextInfo, NextCall) = NextInfo.size
  /\ \A j \in 1..(i - 1) :
       EncodeArg(db, big_endian, NextInfo, j - 1, NextCall.args[j]).kind = "Ok"

\* C15 as stated: a named variant at an index where the schema declares no
\* Enum makes encoding fail with NoEnum(index, opcode ID).
C15_NoEnumAlways ==
  [][AtResolvedCall =>
       \A i \in 1..Len(NextCall.args) :
         (NamedOffEnum(i) /\ \A j \in 1..(i - 1) : ~NamedOffEnum(j)) =>
           enc_result' = Fail(Err("NoEnum", NoName, "", i - 1, NextInfo.id))]_vars

\* C15: a named variant at an index where the schema declares no Enum makes
\* encoding fail with NoEnum(index from 0, opcode ID) and no bytes, provided
\* the encoder gets to that argument: the call passes the size check and the
\* arguments before it are written.
C15_NoEnum ==
  [][AtResolvedCall =>
       \A i \in 1..Len(NextCall.args) :
         (NamedOffEnum(i) /\ ReachesArg(i)) =>
           /\ enc_result' = Fail(Err("NoEnum", NoName, "", i - 1, NextInfo.id))
           /\ enc_result'.v = <<>>
           /\ phase' = "done"]_vars

\* `Pad: 9, (Red)`: the schema of ID 6 declares no argument at index 1
C15_Witness ==
  /\ enc_result.kind = "Err"
  /\ enc_result.err.kind = "NoEnum"
  /\ enc_result.err.n1 = 1
  /\ enc_result.err.n2 = 6

\* argument i is a named variant at an Enum(E) position, E is a named map of
\* the catalog, and the variant is no name of E
VariantNotInMap(i) ==
  /\ NamedAtEnum(i)
  /\ NextInfo.args[i].name \in DOMAIN db.named_value_maps
  /\ \A q \in db.named_value_maps[NextInfo.args[i].name] : q.name # NextCall.args[i].name
NoAssociatedValue(i) ==
  Fail([Err("NoAssociatedValue", NoName, NextCall.args[i].name, 0, 0)
         EXCEPT !.s2 = NextInfo.args[i].name])

\* C16 as stated: a named variant at an Enum(E) position whose name is no key
\* of E makes encoding fail with the error naming the variant and E.
C16_NoAssociatedValueAlways ==
  [][AtResolvedCall =>
       \A i \in 1..Len(NextCall.args) :
         (VariantNotInMap(i) /\ \A j \in 1..(i - 1) : ~VariantNotInMap(j)) =>
           enc_result' = NoAssociatedValue(i)]_vars

\* C16: a call with a named variant at an Enum(E) position whose name is no
\* key of E is never encoded: encoding fails and writes nothing for the call;
\* when the encoder gets to that argument (the size check passed, the
\* arguments before it written) the error names the variant and E.
C16_NoAssociatedValue ==
  [][AtResolvedCall =>
       \A i \in 1..Len(NextCall.args) :
         VariantNotInMap(i) =>
           /\ enc_result'.kind = "Err"
           /\ enc_result'.v = <<>>
           /\ phase' = "done"
           /\ UNCHANGED <<pos, script_buffer>>
           /\ ReachesArg(i) => enc_result' = NoAssociatedValue(i)]_vars

\* `Foo: (Green)` against Color = {Red, Blue}
C16_Witness ==
  /\ enc_result.kind = "Err"
  /\ enc_result.err.kind = "NoAssociatedValue"
  /\ enc_result.err.s = "Green"
  /\ enc_result.err.s2 = "Color"

\* ------------------------------------------------------------ enums through the text
\* the names the named map E gives the value v
NamesOf(E, v) == {q.name : q \in {p \in db.named_value_maps[E] : p.num = v}}

\* C17: a decoded Enum(E) argument of value v is rendered `(name)` when E maps
\* v to name and as the bare number v when E has no name for v; encoding the
\* rendered text at that position writes the 4 bytes of v again.
C17_EnumRoundTrip ==
  \A k \in 1..Len(dprogram) : \A i \in 1..Len(dprogram[k].args) :
    LET arg == dprogram[k].args[i]
    IN  (arg.t = "Enum" /\ arg.name \in DOMAIN db.named_value_maps
           /\ dprogram[k].id \in DOMAIN db.instructions) =>
          LET shown == arg_to_string(db, arg)
              back == EncodeArg(db, big_endian, Generic(db, dprogram[k].id), i - 1,
                                ParserArg(shown.v))
          IN  /\ shown.kind = "Ok"
              /\ \A name \in NamesOf(arg.name, arg.num) : shown.v = TNamed(name)
              /\ NamesOf(arg.name, arg.num) = {} => shown.v = TNum(arg.num)
              /\ back = Ok(WriteU32(big_endian, arg.num))

\* both cases decoded in one stream: 2 is Blue, 7 has no name in Color
C17_Witness ==
  /\ phase = "done"
  /\ mode = "parse"
  /\ enc_result.kind = "Ok"
  /\ \E k \in 1..Len(dprogram) : dprogram[k].args = <<AEnum("Color", 2)>>
  /\ \E k \in 1..Len(dprogram) : dprogram[k].args = <<AEnum("Color", 7)>>
  /\ \E k \in 1..Len(out) : out[k].args = <<TNamed("Blue")>>
  /\ \E k \in 1..Len(out) : out[k].args = <<TNum(7)>>

\* ------------------------------------------------------------ dangling enum references
\* the formatter is about to render an Enum(E) argument whose E is no named
\* map of the catalog
DanglingEnumNext ==
  /\ phase = "fmt"
  /\ fpos < Len(dprogram)
  /\ \E i \in 1..Len(dprogram[fpos + 1].args) :
       /\ dprogram[fpos + 1].args[i].t = "Enum"
       /\ dprogram[fpos + 1].args[i].name \notin DOMAIN db.named_value_maps

\* C18: an Enum(E) argument of a schema whose E is no named map of the catalog
\* is reported as an error value: it is not passed over in silence by every
\* stage, and the stage that meets it does not panic.
C18_DanglingEnumIsTypedError ==
  [][DanglingEnumNext => (fmt_result'.kind = "Err" /\ phase' = "done")]_vars

\* ------------------------------------------------------------ string capacity
\* the capacity in bytes of a string literal, and the bytes of its content
Capacity(tok) == IF tok.form = "s16" THEN 16 ELSE 32
ContentBytes(tok) == Utf8(unescaped(tok.chars))
\* the text holds an s16 / s32 literal whose content is longer than its capacity
HasLongLiteral(text) ==
  \E k \in 1..Len(text) : \E i \in 1..Len(text[k].args) :
    /\ text[k].args[i].form \in {"s16", "s32"}
    /\ Len(ContentBytes(text[k].args[i])) > Capacity(text[k].args[i])

\* C19: a script with an s16 or s32 literal whose unescaped content is longer
\* than 16 or 32 bytes is never encoded: no output is returned for it.
C19_LongStringRefused ==
  (mode = "rebuild" /\ HasLongLiteral(src_text)) => enc_result.kind # "Ok"

\* ------------------------------------------------------------ fixed strings decoded
\* a buffer without its trailing NUL bytes
RECURSIVE StripTrailingNul(_)
StripTrailingNul(buf) ==
  IF buf # <<>> /\ buf[Len(buf)] = 0 THEN StripTrailingNul(Take(buf, Len(buf) - 1))
  ELSE buf
\* one character per byte, every ' written \'
RECURSIVE EscapeQuotes(_)
EscapeQuotes(chars) ==
  IF chars = <<>> THEN <<>>
  ELSE (IF chars[1] = 39 THEN <<92, 39>> ELSE <<chars[1]>>) \o EscapeQuotes(Tail(chars))

\* C20: a decoded String16 / String32 argument is its 16- or 32-byte buffer
\* without the trailing NUL bytes, every byte left (a NUL before a non-NUL
\* byte included) one character, and every ' written \'.
C20_FixedStringDecode ==
  [][(phase = "dec" /\ Len(dprogram') = Len(dprogram) + 1) =>
       LET iv == dprogram'[Len(dprogram')]
           at(i) == HeaderWidth + SumSeq([j \in 1..(i - 1) |-> ValueWidth(iv.args[j])])
       IN  \A i \in 1..Len(iv.args) :
             iv.args[i].t \in {"String16", "String32"} =>
               iv.args[i].str =
                 EscapeQuotes(StripTrailingNul(
                   SubSeq(input, at(i) + 1, at(i) + ValueWidth(iv.args[i]))))]_vars

\* ------------------------------------------------------------ tagged values through the text
\* where the i-th argument of a decoded instruction begins in its record
ArgStart(iv, i) == HeaderWidth + SumSeq([j \in 1..(i - 1) |-> ValueWidth(iv.args[j])])
\* the names the catalog gives the variable id
VariableNames(id) == {q.name : q \in {p \in db.named_variables : p.num = id}}

Formatted == dprogram[fpos + 1]
FormatPass == phase = "fmt" /\ fpos' = fpos + 1
Written == SubSeq(out', Len(out) + 1, Len(out'))

\* C22: the depth is 0 before the first instruction and never below 0; each
\* pass writes the instruction's line at the depth held before the pass (up
\* to the limit), and after the line Begin raises the depth by one, End lowers
\* it by one when it is above 0 and leaves it at 0 otherwise, and NoBlock
\* leaves it unchanged.
C22_DepthTransitions ==
  [][/\ indent >= 0 /\ indent' >= 0
     /\ fpos = 0 => indent = 0
     /\ FormatPass =>
          /\ Written # <<>>
          /\ ~Written[1].blank
          /\ Written[1].name = InstructionName(Formatted)
          /\ Written[1].indent =
               INDENT_SPACES * (IF indent < INDENT_LIMIT THEN indent ELSE INDENT_LIMIT)
          /\ Formatted.code_block = "Begin" => indent' = indent + 1
          /\ (Formatted.code_block = "End" /\ indent > 0) => indent' = indent - 1
          /\ (Formatted.code_block = "End" /\ indent = 0) => indent' = 0
          /\ Formatted.code_block = "NoBlock" => indent' = indent]_vars

\* an End met at depth 0 after the text of one closed block, and a line at depth 2
C22_Witness ==
  /\ phase = "text"
  /\ indent = 0
  /\ Len(dprogram) = 4
  /\ [k \in 1..4 |-> dprogram[k].code_block] = <<"Begin", "Begin", "End", "End">>
  /\ [k \in 1..Len(out) |-> out[k].indent] = <<0, 2, 4, 2, 0>>

\* C23: a pass of the formatter writes one blank line right after the
\* instruction's line exactly when the instruction is an End met at depth 1;
\* after a Begin, a NoBlock, an End met at a depth above 1 or an End met at
\* depth 0 the line is all it writes.
C23_BlankLine ==
  [][FormatPass =>
       IF Formatted.code_block = "End" /\ indent = 1
       THEN /\ Len(Written) = 2
            /\ ~Written[1].blank
            /\ Written[2] = BlankLine
            /\ indent' = 0
       ELSE /\ Len(Written) = 1
            /\ ~Written[1].blank]_vars

\* the three kinds of End in one text: met at depth 2, at depth 1 (the only
\* blank line) and at depth 0
C23_Witness ==
  /\ phase = "text"
  /\ [k \in 1..Len(dprogram) |-> dprogram[k].code_block]
       = <<"Begin", "Begin", "End", "End", "End">>
  /\ [k \in 1..Len(out) |-> out[k].blank] = <<FALSE, FALSE, FALSE, FALSE, TRUE, FALSE>>

\* the decoded program begins with a Begin and an End of no argument, both rendered
BeginEndRendered ==
  /\ phase \in {"fmt", "text"}
  /\ fpos >= 2
  /\ dprogram[1].code_block = "Begin" /\ dprogram[1].args = <<>>
  /\ dprogram[2].code_block = "End" /\ dprogram[2].args = <<>>

\* C24 as stated: the Begin's line is unindented, the End's line is at the same
\* indentation, and a blank line follows.
C24_SameIndentation ==
  BeginEndRendered =>
    /\ Len(out) >= 3
    /\ out[1].indent = 0
    /\ out[2].indent = out[1].indent
    /\ out[3] = BlankLine

\* C24: a Begin of no argument directly followed by an End of no argument is
\* rendered as two lines, the first unindented and the second one level
\* (2 spaces) deeper, followed by a blank line.
C24_BeginEndExample ==
  BeginEndRendered =>
    /\ Len(out) >= 3
    /\ out[1] = Line(0, InstructionName(dprogram[1]), <<>>)
    /\ out[2] = Line(INDENT_SPACES, InstructionName(dprogram[2]), <<>>)
    /\ out[3] = BlankLine

\* the stream 02 00 00 00 03 00 00 00 rendered
C24_Witness ==
  /\ phase = "text"
  /\ in_file = <<2, 0, 0, 0, 3, 0, 0, 0>>
  /\ out = <<Line(0, Word("If"), <<>>), Line(2, Word("EndIf"), <<>>), BlankLine>>

\* the depth after the first n instructions of a decoded program
RECURSIVE DepthAfter(_, _)
DepthAfter(prog, n) ==
  IF n = 0 THEN 0
  ELSE LET d == DepthAfter(prog, n - 1)
       IN  CASE prog[n].code_block = "Begin" -> d + 1
             [] prog[n].code_block = "End" -> IF d > 0 THEN d - 1 ELSE 0
             [] OTHER -> d
\* the instruction lines of a text
InstructionLines(text) == SelectSeq(text, LAMBDA l : ~l.blank)

C26_UniformByteOrder ==
  (RebuildRunOver /\ big_endian /\ enc_result.kind = "Ok"
     /\ Len(db.jump_table_ids) = 1 /\ program # <<>>)
    => /\ dec_result.kind = "Ok"
       /\ Len(dprogram) = Len(program)
       /\ \A k \in 1..Len(program) : dprogram[k].id = CallInfo(k).id

\* ------------------------------------------------------------ the encoder's failures
\* C27: the encoder never panics: whatever the calls and the catalog, it
\* returns the output bytes or a typed error, also for a call named Unknown<N>
\* with N absent from the catalog and a named-variant argument.
C27_EncoderNeverPanics ==
  /\ enc_result.kind \in {"none", "Ok", "Err"}
  /\ enc_result.kind = "Err" => enc_result.err.kind # "panic"

\* ------------------------------------------------------------ the decode loop
\* C28: the loop of parse_script runs only while bytes remain; each pass
\* either ends the decode with a failure, adding no instruction, or takes the
\* record at the front of the remaining input: the remaining bytes become a
\* proper suffix, shorter by at least 4 bytes in fixed-size mode and 8 in
\* dynamic-size mode, and the instruction of the ID read at the front is added
\* at the end of the program.  The loop stops with the program when no byte
\* remains and goes on otherwise.
C28_DecodeLoopProgress ==
  [][phase = "dec" =>
       /\ Len(input) > 0
       /\ \/ UNCHANGED vars
          \/ /\ phase' = "done"
             /\ dec_result'.kind \in {"Err", "Panic"}
             /\ dprogram' = dprogram
          \/ /\ Len(input') <= Len(input) - HeaderWidth
             /\ input' = Drop(input, Len(input) - Len(input'))
             /\ Len(dprogram') = Len(dprogram) + 1
             /\ SubSeq(dprogram', 1, Len(dprogram)) = dprogram
             /\ dprogram'[Len(dprogram')].id = GetU32LE(input)
             /\ IF Len(input') = 0
                THEN phase' = "fmt" /\ dec_result'.kind = "Ok"
                ELSE phase' = "dec" /\ dec_result' = dec_result]_vars

\* two records decoded in the order of the stream, in each mode
C28_Witness ==
  /\ phase = "fmt"
  /\ mode = "parse"
  /\ Len(input) = 0
  /\ Len(records) = 2
  /\ RecordId(records[1]) # RecordId(records[2])
  /\ [k \in 1..Len(dprogram) |-> dprogram[k].id] = [k \in 1..2 |-> RecordId(records[k])]
  /\ Len(Concat(records)) = IF IsUnsized(db) THEN 28 ELSE 20

\* ------------------------------------------------------------ record alignment
\* C29: in fixed-size mode every instruction that decodes takes exactly the
\* declared size of its schema from the input, the 4-byte ID and the arguments,
\* whatever the schema: also one whose argument types sum to more than
\* size - 4 and one whose size is below 4.
C29_RecordAlignment ==
  [][(phase = "dec" /\ db.is_sized /\ Len(dprogram') = Len(dprogram) + 1) =>
       LET schema == db.instructions[GetU32LE(input)]
           consumed == Len(input) - Len(input')
           decoded == dprogram'[Len(dprogram')]
       IN  /\ consumed = schema.size
           /\ SumSeq([i \in 1..Len(decoded.args) |-> ValueWidth(decoded.args[i])])
                = schema.size - SIZED_HEADER]_vars

\* ------------------------------------------------------------ the jump-table count
\* a u32 read from four bytes in the run's byte order
ReadU32(be, b) == IF be THEN GetU32LE(<<b[4], b[3], b[2], b[1]>>) ELSE GetU32LE(b)
\* the call resolves to a jump-table ID
JumpEligible(k) ==
  /\ ResolveInstruction(db, program[k]).kind = "Ok"
  /\ \E i \in 1..Len(db.jump_table_ids) : db.jump_table_ids[i] = CallInfo(k).id
\* its first argument is a 32-byte string
LabelFirst(k) == Len(program[k].args) >= 1 /\ program[k].args[1].k = "String32"
\* the entries written so far and the offset each one holds
EntryCount == Len(jump_table_buffer) \div JUMP_ENTRY_LENGTH
EntryOffset(i) ==
  ReadU32(big_endian, SubSeq(jump_table_buffer, JUMP_ENTRY_LENGTH * i - 3,
                             JUMP_ENTRY_LENGTH * i))
\* the encoder is at a jump-eligible call without a 32-byte string in front
AtUnlabelledCall ==
  /\ phase = "asm"
  /\ pos < Len(program)
  /\ JumpEligible(pos + 1)
  /\ ~LabelFirst(pos + 1)
\* the call at hand passes the size check and its arguments encode
PassesOtherChecks ==
  /\ ~SizeMismatch(program[pos + 1], CallInfo(pos + 1))
  /\ EncodeArgs(db, big_endian, CallInfo(pos + 1), 0, program[pos + 1].args).kind = "Ok"
\* the call at hand is encoded: its record is written, no entry is, no error is returned
EncodedWithoutEntry ==
  /\ pos' = pos + 1
  /\ Len(script_buffer') > Len(script_buffer)
  /\ jump_table_buffer' = jump_table_buffer
  /\ jump_entry_count' = jump_entry_count
  /\ enc_result' = enc_result

\* C30 as stated: a jump-eligible call whose first argument is missing or is
\* not a 32-byte string is encoded without an entry and without an error.
C30_UnlabelledAlwaysEncoded ==
  [][AtUnlabelledCall => EncodedWithoutEntry]_vars

\* the count of the header, the entries and the eligible calls agree, and the
\* offsets of the entries increase and lie inside the instruction stream
CountInvariant ==
  (phase = "asm" \/ enc_result.kind = "Ok") =>
    /\ Len(jump_table_buffer) = JUMP_ENTRY_LENGTH * jump_entry_count
    /\ jump_entry_count =
         SumSeq([k \in 1..pos |-> IF JumpEligible(k) /\ LabelFirst(k) THEN 1 ELSE 0])
    /\ \A i \in 1..EntryCount : \A j \in 1..EntryCount :
         i < j => EntryOffset(i) < EntryOffset(j)
    /\ \A i \in 1..EntryCount : EntryOffset(i) < Len(script_buffer)
    /\ enc_result.kind = "Ok" =>
         /\ Len(enc_result.v) = 4 + JUMP_ENTRY_LENGTH * jump_entry_count + Len(script_buffer)
         /\ ReadU32(big_endian, SubSeq(enc_result.v, 1, 4)) = jump_entry_count
         /\ SubSeq(enc_result.v, 5, 4 + Len(jump_table_buffer)) = jump_table_buffer

\* C30: while and after encoding, the count of the header equals the number of
\* 36-byte entries that follow it and the number of calls met whose resolved ID
\* is in jump_table_ids and whose first argument is a 32-byte string; the
\* offsets of the entries are strictly increasing and each is smaller than the
\* length of the instruction stream; a jump-eligible call whose first argument
\* is missing or is not a 32-byte string makes no entry, and is encoded without
\* an error when it passes the size check and its arguments encode.
C30_JumpCount ==
  /\ []CountInvariant
  /\ [][AtUnlabelledCall =>
          /\ jump_table_buffer' = jump_table_buffer
          /\ jump_entry_count' = jump_entry_count
          /\ PassesOtherChecks => (UNCHANGED vars \/ EncodedWithoutEntry)]_vars

\* a jump-eligible call without argument encoded with no entry, then a labelled
\* one whose entry holds the offset past the first record
C30_Witness ==
  /\ enc_result.kind = "Ok"
  /\ Len(program) = 2
  /\ JumpEligible(1) /\ program[1].args = <<>>
  /\ JumpEligible(2) /\ LabelFirst(2)
  /\ jump_entry_count = 1
  /\ EntryOffset(1) = 8
  /\ Len(script_buffer) = 48

====
